---- MODULE Spec2Model ----
(***************************************************************************)
(* video-sync-watch: the relay server (src/unnamed/part_000, lines 1-269)  *)
(* and the Client Sync Agent of the browser extension                      *)
(* (src/extension/background.js, lines 37-514).                            *)
(*                                                                         *)
(* Four specifications share this module:                                  *)
(*   Spec      the relay's handlers (connection, message, close) driven by *)
(*             arbitrary frames;                                           *)
(*   SpecRoom  the relay with the transport to each client and the         *)
(*             client's message handler;                                   *)
(*   SpecConn  one client's connection lifecycle (connect, open, message,  *)
(*             close, the reconnect timer, disconnect);                    *)
(*   SpecSync  one client's video synchronisation (sendVideoState,         *)
(*             applyVideoState, the listeners and timers).                 *)
(***************************************************************************)
EXTENDS Integers, Sequences, FiniteSets, TLC

VARIABLES
    \* ---- relay (part_000) ----
    clients,        \* part_000:52  Map<WebSocket, ClientInfo>, a function on the registered connections
    lastState,      \* part_000:53  VideoState | null
    readyState,     \* ws readyState of each server-side socket
    failing,        \* the open sockets whose send() raises (part_000:64-67)
    sent,           \* the frames the latest relay handler sent, per connection, in order
    last,           \* the latest relay event: [op, c, frame]
    \* ---- transport relay -> client and the client end of each connection ----
    chan,           \* frames sent by the relay and not yet received, per connection
    agent,          \* the client's `state` object (background.js:46-54), per connection
    \* ---- one client's connection (background.js) ----
    state,          \* background.js:46-54  the state object
    webSocket,      \* background.js:56     the current socket, or 0 for null
    reconnectTimerId, \* background.js:57   a timer id, or 0 for null
    isActive,       \* background.js:62
    wsReadyState,   \* readyState of each socket the client created
    wsAuth,         \* per socket: "no", "sent" (auth sent), "ok" (the relay's authenticated reply handled)
    timers,         \* the ids of the pending reconnect timeouts
    disconnected,   \* disconnect() was called and connect() has not been since
    clast,          \* the latest client event
    \* ---- one client's video synchronisation (background.js) ----
    video,          \* background.js:58  "null", or "video" for the page's element
    media,          \* the element's currentTime (in half seconds), paused, playbackRate
    lastVideoState, \* background.js:59  null or the state last sent
    stateTimer,     \* background.js:60  whether the 500 ms interval is set
    isControlledSync, \* background.js:61
    graceTimers,    \* the pending 200 ms timeouts of applyVideoState
    events,         \* media events queued by the element and not yet dispatched
    vsent,          \* the frame the latest client step sent, or NoFrame
    applied,        \* the latest step if it ran applyVideoState on the video: the state and the calls made
    pureRemote      \* the video differs from the state last sent only by applied remote updates

relayVars == <<clients, lastState, readyState, failing, sent, last>>
roomVars  == <<chan, agent>>
connVars  == <<state, webSocket, reconnectTimerId, isActive, wsReadyState,
               wsAuth, timers, disconnected, clast>>
syncVars  == <<video, media, lastVideoState, stateTimer, isControlledSync, graceTimers,
               events, vsent, applied, pureRemote>>
vars == <<relayVars, roomVars, connVars, syncVars>>

(***************************************************************************)
(* Bounds.                                                                 *)
(***************************************************************************)
NConn == 3          \* connections the relay serves at a time
MaxInFlight == 3    \* frames in flight from the relay to its clients
NRoom == 2          \* connections of SpecRoom
MaxSockets == 3     \* sockets of one client that are not yet closed and forgotten
MaxTimers == 2      \* reconnect timeouts of one client pending at a time
MaxTime == 3        \* the video's length, in half seconds
MaxGrace == 2       \* 200 ms timeouts of applyVideoState pending at a time

Conns == 1..NConn

(***************************************************************************)
(* JavaScript and JSON values.  An object is a record whose domain is the  *)
(* set of its own properties; a missing property reads as undefined.       *)
(* accessKey and data hold a JS value [t |-> type, v |-> text].            *)
(***************************************************************************)
Undefined == [t |-> "undefined", v |-> ""]
Null      == [t |-> "null", v |-> ""]
Str(s)    == [t |-> "string", v |-> s]
Arr1(s)   == [t |-> "array", v |-> s]       \* the one-element array [s]
Num(s)    == [t |-> "number", v |-> s]
Obj(s)    == [t |-> "object", v |-> s]      \* a VideoState object, by name

\* obj.f
Get(obj, f) == IF f \in DOMAIN obj THEN obj[f] ELSE Undefined

\* ToBoolean
Truthy(x) ==
    CASE x.t = "undefined" -> FALSE
      [] x.t = "null"      -> FALSE
      [] x.t = "number"    -> x.v # "0"
      [] x.t = "string"    -> x.v # ""
      [] OTHER             -> TRUE

\* a !== b (part_000:115): no conversion, an array never equals a string
LooseNotEquals(a, b) ==
    LET prim(x) == IF x.t = "array" THEN Str(x.v) ELSE x
    IN  prim(a) # prim(b)
StrictNotEquals(a, b) == a # b

\* part_000:31  process.env.ACCESS_KEY || generateAccessKey(): a non-empty string
ACCESS_KEY == Str("KEY1")

(***************************************************************************)
(* Frames.  JSON.stringify drops the properties whose value is undefined;  *)
(* JSON.parse throws on text that is not JSON.                             *)
(***************************************************************************)
JSON_stringify(obj) ==
    LET keep == {f \in DOMAIN obj :
                    ~(f \in {"accessKey", "data"} /\ obj[f] = Undefined)
                    /\ ~(f \in {"action"} /\ obj[f] = "undefined")}
    IN  [kind |-> "json", obj |-> [f \in keep |-> obj[f]]]

Throw == [kind |-> "throw"]
JSON_parse(raw) ==
    CASE raw.kind = "malformed" -> Throw
      [] raw.kind = "null"      -> [kind |-> "null"]
      [] OTHER                  -> [kind |-> "object", obj |-> raw.obj]

KeyValues  == {ACCESS_KEY, Str("key1"), Arr1("KEY1"), Undefined}
DataValues == {Undefined, Null, Obj("S1"), Obj("S2")}
Actions    == {"state-update", "seek", "undefined"}

AuthFrame(k)    == JSON_stringify([type |-> "auth", accessKey |-> k])
SyncFrame(a, d) == JSON_stringify([type |-> "sync", action |-> a, data |-> d])
Malformed       == [kind |-> "malformed"]
Frames ==
    {AuthFrame(k) : k \in KeyValues}
    \cup {SyncFrame(a, d) : a \in Actions, d \in DataValues}
    \cup {JSON_stringify([type |-> "ping"]), Malformed, [kind |-> "null"]}

NoFrame == [kind |-> "none"]
\* no applyVideoState in the latest step
NoApply == [data |-> Null, calls |-> {}]

(***************************************************************************)
(* The relay.                                                              *)
(***************************************************************************)
NoSends == [c \in Conns |-> <<>>]
\* ws.send(JSON.stringify(message)) on one socket
Send(ws, message) == [c \in Conns |-> IF c = ws THEN <<JSON_stringify(message)>> ELSE <<>>]
\* the sends of a, then the sends of b
Then(a, b) == [c \in Conns |-> a[c] \o b[c]]

\* broadcast without the try block of lines 63-67: the first send that
\* raises ends the loop over the registry (in the order of the connections)
broadcastAbortOnThrow(cl, rs, message, exclude, throws) ==
    LET to == {c \in DOMAIN cl : c \notin exclude /\ rs[c] = "OPEN" /\ cl[c].authenticated}
    IN  [c \in Conns |->
            IF c \in to /\ \A t \in to \cap throws : c < t
            THEN <<JSON_stringify(message)>> ELSE <<>>]

\* part_000:55-75.  exclude is {} for null; throws are the recipients whose
\* send raises, which the catch block skips.
broadcastExcludeNobody(cl, rs, message, exclude, throws) ==
    [c \in Conns |->
        IF /\ c \in DOMAIN cl
           /\ rs[c] = "OPEN"
           /\ cl[c].authenticated
           /\ c \notin throws
        THEN <<JSON_stringify(message)>> ELSE <<>>]
broadcast(cl, rs, message, exclude, throws) ==
    [c \in Conns |->
        IF /\ c \in DOMAIN cl
           /\ c \notin exclude
           /\ rs[c] = "OPEN"
           /\ cl[c].authenticated
           /\ c \notin throws
        THEN <<JSON_stringify(message)>> ELSE <<>>]

\* part_000:77-79
getAuthenticatedCount(cl) == Cardinality({c \in DOMAIN cl : cl[c].authenticated})

\* The outcome of a handler: the registry, Room State and the sends.
Outcome(cl, ls, out) == [clients |-> cl, lastState |-> ls, sent |-> out]

\* handleAuth clearing the flag when the key is wrong
handleAuthResetOnWrongKey(ws, message) ==
    LET accessKey == Get(message, "accessKey")
        cl1   == [clients EXCEPT ![ws].authenticated = TRUE]
        count == getAuthenticatedCount(cl1)
    IN  IF StrictNotEquals(accessKey, ACCESS_KEY)
        THEN Outcome([clients EXCEPT ![ws].authenticated = FALSE], lastState,
                     Send(ws, [type |-> "error", message |-> "Invalid access key"]))
        ELSE Outcome(cl1, lastState,
                Then(Send(ws, [type |-> "authenticated", participants |-> count]),
                Then(broadcast(cl1, readyState,
                               [type |-> "participant-update", participants |-> count],
                               {ws}, failing),
                     IF Truthy(lastState)
                     THEN Send(ws, [type |-> "sync", action |-> "state-update",
                                    data |-> lastState])
                     ELSE NoSends)))
\* handleAuth with the authenticated reply broadcast instead of sent to ws
handleAuthReplyBroadcast(ws, message) ==
    LET accessKey == Get(message, "accessKey")
        cl1   == [clients EXCEPT ![ws].authenticated = TRUE]
        count == getAuthenticatedCount(cl1)
    IN  IF StrictNotEquals(accessKey, ACCESS_KEY)
        THEN Outcome(clients, lastState,
                     Send(ws, [type |-> "error", message |-> "Invalid access key"]))
        ELSE Outcome(cl1, lastState,
                Then(broadcast(cl1, readyState,
                               [type |-> "authenticated", participants |-> count],
                               {}, failing),
                Then(broadcast(cl1, readyState,
                               [type |-> "participant-update", participants |-> count],
                               {ws}, failing),
                     IF Truthy(lastState)
                     THEN Send(ws, [type |-> "sync", action |-> "state-update",
                                    data |-> lastState])
                     ELSE NoSends)))
\* part_000:109-147
handleAuthCountFirst(ws, message) ==
    LET accessKey == Get(message, "accessKey")
        cl1   == [clients EXCEPT ![ws].authenticated = TRUE]
        count == getAuthenticatedCount(clients)
    IN  IF StrictNotEquals(accessKey, ACCESS_KEY)
        THEN Outcome(clients, lastState,
                     Send(ws, [type |-> "error", message |-> "Invalid access key"]))
        ELSE Outcome(cl1, lastState,
                Then(Send(ws, [type |-> "authenticated", participants |-> count]),
                Then(broadcast(cl1, readyState,
                               [type |-> "participant-update", participants |-> count],
                               {ws}, failing),
                     IF Truthy(lastState)
                     THEN Send(ws, [type |-> "sync", action |-> "state-update",
                                    data |-> lastState])
                     ELSE NoSends)))
handleAuthStateFirst(ws, message) ==
    LET accessKey == Get(message, "accessKey")
        cl1   == [clients EXCEPT ![ws].authenticated = TRUE]
        count == getAuthenticatedCount(cl1)
    IN  IF StrictNotEquals(accessKey, ACCESS_KEY)
        THEN Outcome(clients, lastState,
                     Send(ws, [type |-> "error", message |-> "Invalid access key"]))
        ELSE Outcome(cl1, lastState,
                Then(IF Truthy(lastState)
                     THEN Send(ws, [type |-> "sync", action |-> "state-update",
                                    data |-> lastState])
                     ELSE NoSends,
                Then(Send(ws, [type |-> "authenticated", participants |-> count]),
                     broadcast(cl1, readyState,
                               [type |-> "participant-update", participants |-> count],
                               {ws}, failing))))
handleAuth(ws, message) ==
    LET accessKey == Get(message, "accessKey")
        cl1   == [clients EXCEPT ![ws].authenticated = TRUE]
        count == getAuthenticatedCount(cl1)
    IN  IF StrictNotEquals(accessKey, ACCESS_KEY)
        THEN Outcome(clients, lastState,
                     Send(ws, [type |-> "error", message |-> "Invalid access key"]))
        ELSE Outcome(cl1, lastState,
                Then(Send(ws, [type |-> "authenticated", participants |-> count]),
                Then(broadcast(cl1, readyState,
                               [type |-> "participant-update", participants |-> count],
                               {ws}, failing),
                     IF Truthy(lastState)
                     THEN Send(ws, [type |-> "sync", action |-> "state-update",
                                    data |-> lastState])
                     ELSE NoSends)))

\* handleSync recording the data of a sync of any action
handleSyncAnyAction(ws, message) ==
    LET action == IF "action" \in DOMAIN message THEN message.action ELSE "undefined"
        data   == Get(message, "data")
        ls1    == IF Truthy(data) THEN data ELSE lastState
    IN  Outcome(clients, ls1,
                broadcast(clients, readyState,
                          [type |-> "sync", action |-> action, data |-> data],
                          {ws}, failing))
\* part_000:149-161
handleSync(ws, message) ==
    LET action == IF "action" \in DOMAIN message THEN message.action ELSE "undefined"
        data   == Get(message, "data")
        ls1    == IF action = "state-update" /\ Truthy(data) THEN data ELSE lastState
    IN  Outcome(clients, ls1,
                broadcast(clients, readyState,
                          [type |-> "sync", action |-> action, data |-> data],
                          {ws}, failing))

\* part_000:81-107.  The caller has clients.get(ws) defined (line 85).
handleMessageNoAuthCheck(ws, message) ==
    LET type == IF "type" \in DOMAIN message THEN message.type ELSE "undefined"
    IN  CASE type = "auth" -> handleAuth(ws, message)
          [] type = "sync" -> handleSync(ws, message)
          [] OTHER ->
                Outcome(clients, lastState,
                        Send(ws, [type |-> "error", message |-> "Unknown message type"]))
handleMessage(ws, message) ==
    LET type == IF "type" \in DOMAIN message THEN message.type ELSE "undefined"
    IN  CASE type = "auth" -> handleAuth(ws, message)
          [] type = "sync" ->
                IF clients[ws].authenticated
                THEN handleSync(ws, message)
                ELSE Outcome(clients, lastState,
                             Send(ws, [type |-> "error", message |-> "Unauthorized"]))
          [] OTHER ->
                Outcome(clients, lastState,
                        Send(ws, [type |-> "error", message |-> "Unknown message type"]))

\* part_000:172-183  ws.on('message'): parse, dispatch, and the catch block.
\* JSON.parse("null") is null, and reading null.type (line 82) throws.
onMessageDropOnError(ws, raw) ==
    LET parsed == JSON_parse(raw)
    IN  IF parsed.kind \in {"throw", "null"}
        THEN Outcome([c \in DOMAIN clients \ {ws} |-> clients[c]], lastState,
                     Send(ws, [type |-> "error", message |-> "Invalid message format"]))
        ELSE handleMessage(ws, parsed.obj)
onMessage(ws, raw) ==
    LET parsed == JSON_parse(raw)
    IN  IF parsed.kind \in {"throw", "null"}
        THEN Outcome(clients, lastState,
                     Send(ws, [type |-> "error", message |-> "Invalid message format"]))
        ELSE handleMessage(ws, parsed.obj)

\* part_000:163-170  wss.on('connection'): register, then send the welcome
onConnection(ws) ==
    Outcome(clients @@ (ws :> [authenticated |-> FALSE]), lastState,
            Send(ws, [type |-> "welcome",
                      message |-> "Connected to sync server. Please authenticate."]))

\* part_000:185-200  ws.on('close')
onClose(ws) ==
    IF ws \in DOMAIN clients
    THEN LET cl1   == [c \in DOMAIN clients \ {ws} |-> clients[c]]
             count == getAuthenticatedCount(cl1)
         IN  Outcome(cl1, lastState,
                     broadcast(cl1, readyState,
                               [type |-> "participant-update", participants |-> count],
                               {}, failing))
    ELSE Outcome(clients, lastState, NoSends)

\* A new socket is accepted (it is not in the registry and is OPEN when
\* handleConnection runs).
HandleConnection(ws) ==
    /\ ws \notin DOMAIN clients
    /\ readyState[ws] = "CLOSED"
    /\ readyState' = [readyState EXCEPT ![ws] = "OPEN"]
    /\ clients' = onConnection(ws).clients
    /\ lastState' = onConnection(ws).lastState
    /\ UNCHANGED failing

\* A frame arrives on an open, registered socket.  (A socket whose send
\* raises delivers no further frame: the replies to it are not modelled.)
HandleFrame(ws, raw) ==
    /\ ws \in DOMAIN clients
    /\ readyState[ws] = "OPEN"
    /\ ws \notin failing
    /\ clients' = onMessage(ws, raw).clients
    /\ lastState' = onMessage(ws, raw).lastState
    /\ UNCHANGED <<readyState, failing>>

\* The peer closes or the network drops: the socket leaves OPEN; its 'close'
\* event is emitted later.  No handler of the relay runs.
PeerClose(ws) ==
    /\ ws \in DOMAIN clients
    /\ readyState[ws] = "OPEN"
    /\ readyState' = [readyState EXCEPT ![ws] = "CLOSING"]
    /\ UNCHANGED <<clients, lastState, failing>>

\* The 'close' event of a socket that left OPEN.
HandleClose(ws) ==
    /\ readyState[ws] = "CLOSING"
    /\ readyState' = [readyState EXCEPT ![ws] = "CLOSED"]
    /\ clients' = onClose(ws).clients
    /\ lastState' = onClose(ws).lastState
    /\ failing' = failing \ {ws}

RelayInit ==
    /\ clients = << >>
    /\ lastState = Null
    /\ readyState = [c \in Conns |-> "CLOSED"]
    /\ failing = {}
    /\ sent = NoSends
    /\ last = [op |-> "init", c |-> 0, frame |-> NoFrame]

(***************************************************************************)
(* The client end of a connection (background.js).                         *)
(***************************************************************************)
\* background.js:46-54  the state object of a freshly loaded content script
InitialState ==
    [webSocketUrl |-> Null, accessKey |-> Null,
     connected |-> FALSE, authenticated |-> FALSE, participants |-> 0,
     videoDetected |-> FALSE, error |-> "null"]

\* background.js:295-297  webSocket.onopen, on the state object
onopenState(st) == [st EXCEPT !.connected = TRUE]

\* background.js:314-347  webSocket.onmessage, on the state object.  The
\* relay's frames are JSON objects; the sync case hands the data to
\* applyVideoState, which returns at line 179 while no video is attached.
onmessageStateKeepCount(st, raw) ==
    LET parsed  == JSON_parse(raw)
        message == parsed.obj
    IN  IF parsed.kind # "object" \/ "type" \notin DOMAIN message THEN st
        ELSE CASE message.type = "authenticated" ->
                    [st EXCEPT !.authenticated = TRUE,
                               !.participants = message.participants]
               [] message.type = "error" -> [st EXCEPT !.error = message.message]
               [] OTHER -> st
onmessageState(st, raw) ==
    LET parsed  == JSON_parse(raw)
        message == parsed.obj
    IN  IF parsed.kind # "object" \/ "type" \notin DOMAIN message THEN st
        ELSE CASE message.type = "authenticated" ->
                    [st EXCEPT !.authenticated = TRUE,
                               !.participants = message.participants]
               [] message.type = "participant-update" ->
                    [st EXCEPT !.participants = message.participants]
               [] message.type = "error" -> [st EXCEPT !.error = message.message]
               [] OTHER -> st

\* background.js:349-352  webSocket.onclose, on the state object
oncloseState(st) == [st EXCEPT !.connected = FALSE, !.authenticated = FALSE]

(***************************************************************************)
(* Spec: the relay's handlers, driven by arbitrary frames.  last records   *)
(* the event handled and sent what its handler sent.                       *)
(***************************************************************************)
Event(op, ws, raw) == [op |-> op, c |-> ws, frame |-> raw]

Connect(ws) ==
    /\ HandleConnection(ws)
    /\ sent' = onConnection(ws).sent
    /\ last' = Event("connection", ws, NoFrame)
    /\ UNCHANGED <<roomVars, connVars, syncVars>>

Receive(ws, raw) ==
    /\ HandleFrame(ws, raw)
    /\ sent' = onMessage(ws, raw).sent
    /\ last' = Event("message", ws, raw)
    /\ UNCHANGED <<roomVars, connVars, syncVars>>

Drop(ws) ==
    /\ PeerClose(ws)
    /\ sent' = NoSends
    /\ last' = Event("peer-close", ws, NoFrame)
    /\ UNCHANGED <<roomVars, connVars, syncVars>>

Close(ws) ==
    /\ HandleClose(ws)
    /\ sent' = onClose(ws).sent
    /\ last' = Event("close", ws, NoFrame)
    /\ UNCHANGED <<roomVars, connVars, syncVars>>

RoomInit ==
    /\ chan = [c \in Conns |-> <<>>]
    /\ agent = [c \in Conns |-> InitialState]

Sockets  == 1..MaxSockets
TimerIds == 1..MaxTimers

\* The content script as loaded (background.js:46-64): no socket, no timer.
ConnInit ==
    /\ state = InitialState
    /\ webSocket = 0
    /\ reconnectTimerId = 0
    /\ isActive = FALSE
    /\ wsReadyState = [i \in Sockets |-> "CLOSED"]
    /\ wsAuth = [i \in Sockets |-> "no"]
    /\ timers = {}
    /\ disconnected = FALSE
    /\ clast = "load"

\* The content script as loaded (background.js:58-61): no video yet.
SyncInit ==
    /\ video = "null"
    /\ media = [currentTime |-> 0, paused |-> TRUE, playbackRate |-> 1]
    /\ lastVideoState = Null
    /\ stateTimer = FALSE
    /\ isControlledSync = FALSE
    /\ graceTimers = 0
    /\ events = {}
    /\ vsent = NoFrame
    /\ applied = NoApply
    /\ pureRemote = FALSE

Init == RelayInit /\ RoomInit /\ ConnInit /\ SyncInit

Next ==
    \/ \E ws \in Conns : Connect(ws)
    \/ \E ws \in Conns, raw \in Frames : Receive(ws, raw)
    \/ \E ws \in Conns : Drop(ws)
    \/ \E ws \in Conns : Close(ws)

Spec == Init /\ [][Next]_vars

(***************************************************************************)
(* SpecRoom: the relay, the transport to each client and the client ends.  *)
(***************************************************************************)
RoomFrames ==
    {AuthFrame(ACCESS_KEY), SyncFrame("state-update", Obj("S1"))}

InFlight(ch) == LET n[i \in 0..NConn] == IF i = 0 THEN 0 ELSE n[i-1] + Len(ch[i]) IN n[NConn]

\* The transport carries a handler's sends to the sockets, in order.
Transmit(out) ==
    /\ chan' = [c \in Conns |-> chan[c] \o out[c]]
    /\ InFlight(chan') <= MaxInFlight

RoomConnect(ws) ==
    /\ HandleConnection(ws)
    /\ Transmit(onConnection(ws).sent)
    /\ agent' = [agent EXCEPT ![ws] = onopenState(InitialState)]
    /\ UNCHANGED <<sent, last, connVars, syncVars>>

RoomReceive(ws, raw) ==
    /\ HandleFrame(ws, raw)
    /\ Transmit(onMessage(ws, raw).sent)
    /\ UNCHANGED <<agent, sent, last, connVars, syncVars>>

\* The client's socket closes: frames in flight to it are lost and its
\* onclose handler runs.
RoomDrop(ws) ==
    /\ PeerClose(ws)
    /\ chan' = [chan EXCEPT ![ws] = <<>>]
    /\ agent' = [agent EXCEPT ![ws] = oncloseState(agent[ws])]
    /\ UNCHANGED <<sent, last, connVars, syncVars>>

RoomClose(ws) ==
    /\ HandleClose(ws)
    /\ Transmit(onClose(ws).sent)
    /\ agent' = [agent EXCEPT ![ws] = InitialState]
    /\ UNCHANGED <<sent, last, connVars, syncVars>>

\* The client receives the next frame of its connection.
Deliver(ws) ==
    /\ chan[ws] # <<>>
    /\ agent' = [agent EXCEPT ![ws] = onmessageState(agent[ws], Head(chan[ws]))]
    /\ chan' = [chan EXCEPT ![ws] = Tail(chan[ws])]
    /\ UNCHANGED <<relayVars, connVars, syncVars>>

RoomConns == 1..NRoom

RoomNext ==
    \/ \E ws \in RoomConns : RoomConnect(ws)
    \/ \E ws \in RoomConns, raw \in RoomFrames : RoomReceive(ws, raw)
    \/ \E ws \in RoomConns : RoomDrop(ws)
    \/ \E ws \in RoomConns : RoomClose(ws)
    \/ \E ws \in RoomConns : Deliver(ws)

SpecRoom == Init /\ [][RoomNext]_vars

(***************************************************************************)
(* Properties of the relay (Spec) and of the room (SpecRoom).              *)
(***************************************************************************)
Registered(ws)    == ws \in DOMAIN clients
Authenticated(ws) == ws \in DOMAIN clients /\ clients[ws].authenticated
Open(ws)          == readyState[ws] = "OPEN"
ErrorFrame(text)  == JSON_stringify([type |-> "error", message |-> text])
AuthenticatedFrame(n) == JSON_stringify([type |-> "authenticated", participants |-> n])
ParticipantFrame(n)   == JSON_stringify([type |-> "participant-update", participants |-> n])
StateFrame(d) == JSON_stringify([type |-> "sync", action |-> "state-update", data |-> d])
SyncFrames    == {SyncFrame(a, d) : a \in Actions, d \in DataValues}
Handled(ws, raw)  == last = Event("message", ws, raw)
\* the number of registry entries whose authenticated flag is true
NAuthenticated == Cardinality({c \in Conns : Authenticated(c)})

\* C1: only an auth whose accessKey is exactly the configured secret moves a
\* connection to Authenticated; an auth with any other value (a missing key
\* included) leaves the connection's flag as it was, sends nothing to any
\* other connection and sends the sender exactly one error frame.
C1_OnlyExactKeyAuthenticates ==
    [][\A ws \in Conns :
          /\ (Authenticated(ws)' /\ ~Authenticated(ws))
                => last' = Event("message", ws, AuthFrame(ACCESS_KEY))
          /\ \A k \in KeyValues \ {ACCESS_KEY} :
                last' = Event("message", ws, AuthFrame(k))
                => /\ clients' = clients
                   /\ sent' = Send(ws, [type |-> "error", message |-> "Invalid access key"])
      ]_vars

\* C1 witness: an unauthenticated connection sent the one-element array
\* ["KEY1"] as its key while another connection was authenticated and open;
\* it is still unauthenticated and holds one error reply.
C1_Witness ==
    \E ws \in Conns : \E other \in Conns \ {ws} :
        /\ Handled(ws, AuthFrame(Arr1("KEY1")))
        /\ Registered(ws) /\ ~Authenticated(ws)
        /\ Authenticated(other) /\ Open(other)
        /\ sent[ws] = <<ErrorFrame("Invalid access key")>>
        /\ sent[other] = <<>>

\* C2: a sync handled for an authenticated sender is sent to every other
\* authenticated connection whose socket is open, as one frame with the
\* sender's action and data, and is not sent to the sender.
C2_SyncReachesOthersNotSender ==
    \A ws \in Conns, raw \in SyncFrames :
        (Handled(ws, raw) /\ Authenticated(ws))
        => /\ sent[ws] = <<>>
           /\ \A c \in Conns \ {ws} :
                (Authenticated(c) /\ Open(c)) => sent[c] = <<raw>>

\* C2 witness: connection 1 sent a state-update while 2 and 3 were
\* authenticated and open; both hold it and 1 holds nothing.
C2_Witness ==
    /\ Handled(1, SyncFrame("state-update", Obj("S1")))
    /\ \A c \in {2, 3} : Authenticated(c) /\ Open(c)
                         /\ sent[c] = <<SyncFrame("state-update", Obj("S1"))>>
    /\ Authenticated(1) /\ sent[1] = <<>>

\* C3: when an auth with the right key is handled while Room State is set,
\* the sender is sent exactly two frames: its authenticated reply, then
\* sync{state-update, data} with data the Room State.
C3_LateJoinerGetsRoomState ==
    \A ws \in Conns :
        (Handled(ws, AuthFrame(ACCESS_KEY)) /\ lastState # Null)
        => /\ Len(sent[ws]) = 2
           /\ sent[ws][1].obj.type = "authenticated"
           /\ sent[ws][2] = StateFrame(lastState)

\* C3 witness: a connection authenticated after S2 was recorded, with
\* another authenticated connection being told of the new participant.
C3_Witness ==
    \E ws \in Conns : \E other \in Conns \ {ws} :
        /\ Handled(ws, AuthFrame(ACCESS_KEY))
        /\ lastState = Obj("S2")
        /\ sent[ws] = <<AuthenticatedFrame(2), StateFrame(Obj("S2"))>>
        /\ sent[other] = <<ParticipantFrame(2)>>

\* C6: every authenticated and participant-update frame a handler sends
\* carries the number of registry entries whose flag is true when the
\* handler computes it: the registry as the handler leaves it.
C6_CountIsAuthenticatedEntries ==
    \A c \in Conns : \A i \in 1..Len(sent[c]) :
        sent[c][i].obj.type \in {"authenticated", "participant-update"}
        => sent[c][i].obj.participants = NAuthenticated

\* C6 witness: the second of two authenticated connections just
\* authenticated: it is told 2, and so is the first.
C6_Witness ==
    \E ws \in Conns : \E other \in Conns \ {ws} :
        /\ Handled(ws, AuthFrame(ACCESS_KEY))
        /\ NAuthenticated = 2
        /\ sent[ws][1] = AuthenticatedFrame(2)
        /\ sent[other] = <<ParticipantFrame(2)>>

\* C7 as stated: no frame from a connection that is unauthenticated when it
\* arrives makes the relay send to another connection or change Room State,
\* and a sync from it yields only error{"Unauthorized"} to it.
C7_Original ==
    [][\A ws \in Conns, raw \in Frames :
          (Registered(ws) /\ ~Authenticated(ws) /\ last' = Event("message", ws, raw))
          => /\ \A c \in Conns \ {ws} : sent'[c] = <<>>
             /\ lastState' = lastState
             /\ raw \in SyncFrames => sent' = Send(ws, [type |-> "error", message |-> "Unauthorized"])
      ]_vars

\* C7 amended: the same for every frame except an auth that carries the
\* configured key (whose handling sends participant-update to the others).
C7_UnauthenticatedCausesNothing ==
    [][\A ws \in Conns, raw \in Frames \ {AuthFrame(ACCESS_KEY)} :
          (Registered(ws) /\ ~Authenticated(ws) /\ last' = Event("message", ws, raw))
          => /\ \A c \in Conns \ {ws} : sent'[c] = <<>>
             /\ lastState' = lastState
             /\ clients' = clients
             /\ raw \in SyncFrames => sent' = Send(ws, [type |-> "error", message |-> "Unauthorized"])
      ]_vars

\* C7 witness: an unauthenticated connection sent a state-update while
\* another connection was authenticated and open; only the error went out.
C7_Witness ==
    \E ws \in Conns : \E other \in Conns \ {ws} :
        /\ Handled(ws, SyncFrame("state-update", Obj("S1")))
        /\ Registered(ws) /\ ~Authenticated(ws)
        /\ Authenticated(other) /\ Open(other)
        /\ lastState # Obj("S1")
        /\ sent[ws] = <<ErrorFrame("Unauthorized")>>
        /\ sent[other] = <<>>

\* C8: a frame that does not parse to an object makes the relay send the
\* sender error{"Invalid message format"} and nothing else: registry, flags,
\* sockets and Room State stay as they were; and an auth with the right key
\* that follows it on that connection authenticates the connection.
UnparsableFrames == {Malformed, [kind |-> "null"]}
C8_MalformedOnlyRepliesError ==
    [][\A ws \in Conns, bad \in UnparsableFrames :
          /\ last' = Event("message", ws, bad)
                => /\ clients' = clients
                   /\ lastState' = lastState
                   /\ readyState' = readyState
                   /\ sent' = Send(ws, [type |-> "error", message |-> "Invalid message format"])
          /\ (last = Event("message", ws, bad) /\ last' = Event("message", ws, AuthFrame(ACCESS_KEY)))
                => /\ Authenticated(ws)'
                   /\ sent'[ws][1].obj.type = "authenticated"
      ]_vars

\* C8 witness: an unauthenticated connection sent malformed text while
\* another was authenticated; it is still registered, open and
\* unauthenticated, and holds the error reply.
C8_Witness ==
    \E ws \in Conns : \E other \in Conns \ {ws} :
        /\ Handled(ws, Malformed)
        /\ Registered(ws) /\ Open(ws) /\ ~Authenticated(ws)
        /\ Authenticated(other) /\ Open(other)
        /\ sent[ws] = <<ErrorFrame("Invalid message format")>>
        /\ sent[other] = <<>>

\* C5: a client whose connection is authenticated and open and which has
\* received every frame the relay sent it records as participants the
\* number of authenticated connections; so once every frame is delivered,
\* all N clients record N.
C5_ParticipantsConverge ==
    \A ws \in Conns :
        (Authenticated(ws) /\ Open(ws) /\ chan[ws] = <<>>)
        => /\ agent[ws].authenticated
           /\ agent[ws].participants = NAuthenticated

\* C5 witness: two authenticated connections, nothing in flight, both
\* clients record 2, after the first had recorded 1.
C5_Witness ==
    /\ \A ws \in RoomConns : Authenticated(ws) /\ Open(ws) /\ chan[ws] = <<>>
                             /\ agent[ws].participants = NRoom
    /\ lastState = Obj("S1")

(***************************************************************************)
(* SpecConn: one client's connection lifecycle (background.js:272-391,     *)
(* 421-439) on a page that holds no video element.  A socket's events are  *)
(* those of the browser's WebSocket: open (from CONNECTING), message       *)
(* (while OPEN) and one close (after close(), a refusal or a loss).  A     *)
(* timeout fires at any time after it was set.                             *)
(***************************************************************************)
Urls == {Str(""), Str("ws://relay")}
Keys == {ACCESS_KEY}

\* background.js:273-278 and 356-361
ConfigOk(st) ==
    /\ st.webSocketUrl.t = "string" /\ st.webSocketUrl.v # ""
    /\ st.accessKey.t = "string" /\ st.accessKey.v # ""

\* socket.close(): a socket that is connecting or open starts closing
CloseSocket(rs, i) ==
    IF i # 0 /\ rs[i] \in {"CONNECTING", "OPEN"} THEN [rs EXCEPT ![i] = "CLOSING"] ELSE rs

\* A socket whose close event has fired has no further event: its slot is
\* free, as is the slot of a socket not yet created.
FreeSockets == {i \in Sockets : wsReadyState[i] = "CLOSED"}
FreeTimers  == TimerIds \ timers
Least(S)    == CHOOSE i \in S : \A j \in S : i <= j

\* The current socket is open and the relay's authenticated reply has been
\* handled on it.
CurrentAuthenticated ==
    webSocket # 0 /\ wsReadyState[webSocket] = "OPEN" /\ wsAuth[webSocket] = "ok"

\* background.js:272-293  connectWebSocket, with st the state object.
\* startVideoDetection (442-470) finds no video on this page.
connectWebSocket(st) ==
    IF ~ConfigOk(st)
    THEN UNCHANGED <<webSocket, wsReadyState, wsAuth, isActive>>
    ELSE /\ FreeSockets # {}
         /\ LET new == Least(FreeSockets)
            IN  /\ webSocket' = new
                /\ wsReadyState' = [CloseSocket(wsReadyState, webSocket) EXCEPT ![new] = "CONNECTING"]
                /\ wsAuth' = [i \in Sockets |->
                                IF i = new \/ i = webSocket THEN "no" ELSE wsAuth[i]]
         /\ isActive' = TRUE

\* background.js:430-436  the popup's connect request
UserConnect(url, key) ==
    /\ state' = [state EXCEPT !.webSocketUrl = url, !.accessKey = key]
    /\ connectWebSocket(state')
    /\ disconnected' = FALSE
    /\ clast' = "connect"
    /\ UNCHANGED <<reconnectTimerId, timers, relayVars, roomVars, syncVars>>

\* background.js:295-312  webSocket.onopen
OnOpen(i) ==
    /\ wsReadyState[i] = "CONNECTING"
    /\ wsReadyState' = [wsReadyState EXCEPT ![i] = "OPEN"]
    /\ state' = onopenState(state)
    /\ timers' = timers \ {reconnectTimerId}
    /\ reconnectTimerId' = 0
    /\ wsAuth' = IF webSocket # 0 THEN [wsAuth EXCEPT ![webSocket] = "sent"] ELSE wsAuth
    /\ clast' = "open"
    /\ UNCHANGED <<webSocket, isActive, disconnected, relayVars, roomVars, syncVars>>

\* background.js:314-347  webSocket.onmessage with the relay's reply to the
\* auth that carried its key
OnMessage(i) ==
    /\ wsReadyState[i] = "OPEN"
    /\ wsAuth[i] = "sent"
    /\ state' = onmessageState(state, AuthenticatedFrame(1))
    /\ wsAuth' = [wsAuth EXCEPT ![i] = "ok"]
    /\ clast' = "message"
    /\ UNCHANGED <<webSocket, reconnectTimerId, isActive, wsReadyState, timers, disconnected,
                   relayVars, roomVars, syncVars>>

\* webSocket.onclose without the setTimeout of lines 355-365
OnCloseNoTimer(i) ==
    /\ wsReadyState[i] \in {"CONNECTING", "OPEN", "CLOSING"}
    /\ wsReadyState' = [wsReadyState EXCEPT ![i] = "CLOSED"]
    /\ wsAuth' = [wsAuth EXCEPT ![i] = "no"]
    /\ state' = oncloseState(state)
    /\ clast' = "close"
    /\ UNCHANGED <<webSocket, reconnectTimerId, timers, isActive, disconnected,
                   relayVars, roomVars, syncVars>>

\* background.js:349-366  webSocket.onclose: the flags, then setTimeout
OnClose(i) ==
    /\ wsReadyState[i] \in {"CONNECTING", "OPEN", "CLOSING"}
    /\ FreeTimers # {}
    /\ wsReadyState' = [wsReadyState EXCEPT ![i] = "CLOSED"]
    /\ wsAuth' = [wsAuth EXCEPT ![i] = "no"]
    /\ state' = oncloseState(state)
    /\ reconnectTimerId' = Least(FreeTimers)
    /\ timers' = timers \cup {Least(FreeTimers)}
    /\ clast' = "close"
    /\ UNCHANGED <<webSocket, isActive, disconnected, relayVars, roomVars, syncVars>>

\* background.js:355-365  the timeout's callback
TimerFire(t) ==
    /\ t \in timers
    /\ timers' = timers \ {t}
    /\ connectWebSocket(state)
    /\ clast' = IF ~ConfigOk(state) THEN "timer"
                ELSE IF CurrentAuthenticated THEN "reconnect-closing-authenticated"
                ELSE "reconnect"
    /\ UNCHANGED <<state, reconnectTimerId, disconnected, relayVars, roomVars, syncVars>>

\* background.js:374-391  disconnect; stopVideoDetection (472-499) has no
\* video to clean up
Disconnect ==
    /\ wsReadyState' = CloseSocket(wsReadyState, webSocket)
    /\ wsAuth' = [i \in Sockets |-> IF i = webSocket THEN "no" ELSE wsAuth[i]]
    /\ webSocket' = 0
    /\ timers' = timers \ {reconnectTimerId}
    /\ reconnectTimerId' = 0
    /\ state' = oncloseState(state)
    /\ isActive' = FALSE
    /\ disconnected' = TRUE
    /\ clast' = "disconnect"
    /\ UNCHANGED <<relayVars, roomVars, syncVars>>

ConnNext ==
    \/ \E url \in Urls, key \in Keys : UserConnect(url, key)
    \/ \E i \in Sockets : OnOpen(i)
    \/ \E i \in Sockets : OnMessage(i)
    \/ \E i \in Sockets : OnClose(i)
    \/ \E t \in TimerIds : TimerFire(t)
    \/ Disconnect

SpecConn == Init /\ [][ConnNext]_vars

\* C9 as stated: after disconnect(), and until the next connect(), no
\* reconnect timeout is pending, there is no socket, and the client is
\* Disconnected.
C9_Original ==
    disconnected =>
        /\ timers = {}
        /\ webSocket = 0
        /\ ~state.connected /\ ~state.authenticated

\* C10 as stated: a connection that is open and authenticated is never
\* closed by a reconnect attempt, and the client stays Authenticated while
\* it is the open current socket, whatever the order of the close event of
\* the socket it superseded.
C10_Original ==
    /\ clast # "reconnect-closing-authenticated"
    /\ CurrentAuthenticated => (state.connected /\ state.authenticated)

(***************************************************************************)
(* SpecConnFair: SpecConn where the browser delivers what it owes: a       *)
(* timeout that was set fires, and a socket that is closing gets its close *)
(* event.  The viewer's connect and disconnect, a socket's loss and the    *)
(* relay's answers are under no obligation.                                *)
(***************************************************************************)
SpecConnFair ==
    /\ SpecConn
    /\ WF_vars(\E t \in TimerIds : TimerFire(t))
    /\ WF_vars(\E i \in Sockets : wsReadyState[i] = "CLOSING" /\ OnClose(i))

\* the close event of the current socket has just been handled
CurrentClosed ==
    clast = "close" /\ webSocket # 0 /\ wsReadyState[webSocket] = "CLOSED"
\* connectWebSocket was re-invoked by the timeout, or the viewer acted
Reconnected ==
    clast \in {"reconnect", "reconnect-closing-authenticated", "connect", "disconnect"}

\* C11 as stated: every close of the client's transport clears connected
\* and authenticated and, unless the viewer connects or disconnects first,
\* is followed by the timeout re-invoking connectWebSocket.
C11_Original ==
    /\ [](clast = "close" => (~state.connected /\ ~state.authenticated))
    /\ (CurrentClosed ~> Reconnected)

\* C11: every close of the client's transport clears connected and
\* authenticated; and while the stored URL and key are non-empty strings,
\* the close is followed, unless the viewer connects or disconnects first,
\* by the timeout re-invoking connectWebSocket with them, after every
\* failed attempt again.
C11_ReconnectsWhileConfigured ==
    /\ [](clast = "close" => (~state.connected /\ ~state.authenticated))
    /\ ((CurrentClosed /\ ConfigOk(state)) ~> Reconnected)

\* the current socket has closed with the URL and key stored, and the
\* timeout its close handler set is pending
C11_Witness ==
    /\ CurrentClosed /\ ConfigOk(state)
    /\ reconnectTimerId \in timers
    /\ ~disconnected

(***************************************************************************)
(* SpecSync: one client's video synchronisation.  The client is connected  *)
(* and authenticated (the state SpecConn reaches by connect, open and the  *)
(* relay's authenticated reply) on a page with one video element.  Times   *)
(* are in half seconds.                                                    *)
(***************************************************************************)
SeekThreshold  == 1     \* background.js:205  > 0.5 s
DriftThreshold == 2     \* background.js:164  > 1 s

Times == 0..MaxTime
Rates == {1, 2}
VideoStates == [currentTime : Times, paused : BOOLEAN, playbackRate : Rates]
\* the data of the state-update frames the relay forwards to this client
RemoteData == {Null} \cup
    {d \in VideoStates : d.currentTime \in {0, MaxTime}}

EventNames == {"play", "pause", "seeked", "ratechange", "timeupdate"}

Abs(x) == IF x < 0 THEN -x ELSE x

\* background.js:113-121
getVideoState(v, m) == IF v = "null" THEN Null ELSE m

\* background.js:129-134
StateUpdate(videoState) ==
    [kind |-> "json",
     obj  |-> [type |-> Str("sync"), action |-> Str("state-update"), data |-> videoState]]

\* background.js:123-140  sendVideoState, with v the attached element and m
\* its state at the call.  Both states are objects with the same keys in
\* the same order, so the JSON texts differ exactly when the values do.
sendVideoState(v, m, lvs) ==
    IF v = "null" \/ webSocket = 0 \/ wsReadyState[webSocket] # "OPEN"
          \/ ~state.authenticated
    THEN [lastVideoState |-> lvs, sent |-> NoFrame]
    ELSE IF getVideoState(v, m) # lvs
         THEN [lastVideoState |-> getVideoState(v, m),
               sent |-> StateUpdate(getVideoState(v, m))]
         ELSE [lastVideoState |-> lvs, sent |-> NoFrame]

SyncConnUnchanged ==
    UNCHANGED <<webSocket, reconnectTimerId, isActive, wsReadyState, wsAuth,
                timers, disconnected, clast, relayVars, roomVars>>

\* background.js:230-269  checkForVideo (the 1 s interval and the mutation
\* observer), with found whether findVideo returns the page's element.
CheckForVideo(found) ==
    /\ isActive
    /\ \/ /\ found /\ video = "null"
          /\ video' = "video"
          /\ state' = [state EXCEPT !.videoDetected = TRUE]
          /\ stateTimer' = TRUE
          /\ LET r == sendVideoState("video", media, lastVideoState)
             IN  lastVideoState' = r.lastVideoState /\ vsent' = r.sent
          /\ UNCHANGED events
       \/ /\ ~found /\ video = "video"
          /\ video' = "null"
          /\ lastVideoState' = Null
          /\ state' = [state EXCEPT !.videoDetected = FALSE]
          /\ stateTimer' = FALSE
          /\ vsent' = NoFrame
          /\ events' = {}
    /\ pureRemote' = FALSE
    /\ UNCHANGED <<media, isControlledSync, graceTimers>>
    /\ applied' = NoApply
    /\ SyncConnUnchanged

\* The viewer acts on the attached element; the element queues its events.
UserChange(m, evs) ==
    /\ video = "video"
    /\ media' = m
    /\ events' = events \cup evs
    /\ vsent' = NoFrame
    /\ pureRemote' = FALSE
    /\ UNCHANGED <<video, lastVideoState, stateTimer, isControlledSync,
                   graceTimers, state>>
    /\ applied' = NoApply
    /\ SyncConnUnchanged

UserPlay ==
    /\ media.paused
    /\ UserChange([media EXCEPT !.paused = FALSE], {"play"})

UserPause ==
    /\ ~media.paused
    /\ UserChange([media EXCEPT !.paused = TRUE], {"pause"})

UserSeek(t) ==
    /\ t # media.currentTime
    /\ UserChange([media EXCEPT !.currentTime = t], {"seeked", "timeupdate"})

UserRate(r) ==
    /\ r # media.playbackRate
    /\ UserChange([media EXCEPT !.playbackRate = r], {"ratechange"})

\* Playback: the playing element's time advances and it queues timeupdate.
Advance ==
    /\ video = "video" /\ ~media.paused /\ media.currentTime < MaxTime
    /\ media' = [media EXCEPT !.currentTime = @ + 1]
    /\ events' = events \cup {"timeupdate"}
    /\ vsent' = NoFrame
    /\ pureRemote' = FALSE
    /\ UNCHANGED <<video, lastVideoState, stateTimer, isControlledSync,
                   graceTimers, state>>
    /\ applied' = NoApply
    /\ SyncConnUnchanged

\* background.js:147-168  the listeners attachVideoListeners adds: play,
\* pause, seeked and ratechange send unless isControlledSync; timeupdate
\* sends unless isControlledSync when the time is more than 1 s from the
\* time last sent (lastVideoState?.currentTime || 0).
ListenerSends(e) ==
    /\ ~isControlledSync
    /\ \/ e # "timeupdate"
       \/ Abs(media.currentTime -
              (IF lastVideoState = Null THEN 0 ELSE lastVideoState.currentTime))
            > DriftThreshold

MediaEvent(e) ==
    /\ e \in events
    /\ events' = events \ {e}
    /\ LET r == IF ListenerSends(e)
                THEN sendVideoState(video, media, lastVideoState)
                ELSE [lastVideoState |-> lastVideoState, sent |-> NoFrame]
       IN  lastVideoState' = r.lastVideoState /\ vsent' = r.sent
    /\ UNCHANGED <<video, media, stateTimer, isControlledSync, graceTimers,
                   pureRemote, state>>
    /\ applied' = NoApply
    /\ SyncConnUnchanged

\* background.js:173  the 500 ms interval calls sendVideoState
PeriodicSend ==
    /\ stateTimer
    /\ LET r == sendVideoState(video, media, lastVideoState)
       IN  lastVideoState' = r.lastVideoState /\ vsent' = r.sent
    /\ UNCHANGED <<video, media, stateTimer, isControlledSync, graceTimers,
                   events, pureRemote, state>>
    /\ applied' = NoApply
    /\ SyncConnUnchanged

\* applyVideoState calling pause() or play() without the comparison of
\* lines 188-191
applyVideoStateNoCompare(m, videoState, playOk) ==
    LET played == ~videoState.paused /\ playOk
        seek   == Abs(m.currentTime - videoState.currentTime) > SeekThreshold
        rate   == m.playbackRate # videoState.playbackRate
    IN  [media |-> [currentTime  |-> IF seek THEN videoState.currentTime
                                             ELSE m.currentTime,
                    paused       |-> IF played THEN FALSE
                                     ELSE IF videoState.paused THEN TRUE ELSE m.paused,
                    playbackRate |-> IF rate THEN videoState.playbackRate
                                             ELSE m.playbackRate],
         events |-> (IF played /\ m.paused THEN {"play"} ELSE {})
                    \cup (IF videoState.paused /\ ~m.paused THEN {"pause"} ELSE {})
                    \cup (IF seek THEN {"seeked", "timeupdate"} ELSE {})
                    \cup (IF rate THEN {"ratechange"} ELSE {}),
         calls  |-> (IF videoState.paused THEN {"pause"} ELSE {"play"})
                    \cup (IF seek THEN {"seek"} ELSE {})
                    \cup (IF rate THEN {"rate"} ELSE {})]

\* background.js:178-228  applyVideoState on the element state m: the new
\* element state, the events the element queues and the calls and
\* assignments made on the element.  playOk is whether the promise of
\* video.play() resolves; a rejected play() leaves the element paused.
applyVideoState(m, videoState, playOk) ==
    LET toggle == m.paused # videoState.paused
        played == toggle /\ ~videoState.paused /\ playOk
        paused == toggle /\ videoState.paused
        seek   == Abs(m.currentTime - videoState.currentTime) > SeekThreshold
        rate   == m.playbackRate # videoState.playbackRate
    IN  [media |-> [currentTime  |-> IF seek THEN videoState.currentTime
                                             ELSE m.currentTime,
                    paused       |-> IF played THEN FALSE
                                     ELSE IF paused THEN TRUE ELSE m.paused,
                    playbackRate |-> IF rate THEN videoState.playbackRate
                                             ELSE m.playbackRate],
         events |-> (IF played THEN {"play"} ELSE {})
                    \cup (IF paused THEN {"pause"} ELSE {})
                    \cup (IF seek THEN {"seeked", "timeupdate"} ELSE {})
                    \cup (IF rate THEN {"ratechange"} ELSE {}),
         calls  |-> (IF toggle /\ ~videoState.paused THEN {"play"} ELSE {})
                    \cup (IF paused THEN {"pause"} ELSE {})
                    \cup (IF seek THEN {"seek"} ELSE {})
                    \cup (IF rate THEN {"rate"} ELSE {})]

\* background.js:329-334, 178-228  onmessage of the open socket for
\* sync{state-update, data}: applyVideoState(data).
ApplyRemote(data, playOk) ==
    /\ webSocket # 0 /\ wsReadyState[webSocket] = "OPEN"
    /\ vsent' = NoFrame
    /\ IF video = "null" \/ data = Null
       THEN /\ applied' = NoApply
            /\ UNCHANGED <<media, events, isControlledSync, graceTimers, pureRemote>>
       ELSE /\ graceTimers < MaxGrace
            /\ LET r == applyVideoState(media, data, playOk)
               IN  /\ media' = r.media
                   /\ events' = events \cup r.events
                   /\ applied' = [data |-> data, calls |-> r.calls]
            /\ isControlledSync' = TRUE
            /\ graceTimers' = graceTimers + 1
            /\ pureRemote' = (pureRemote \/ (media = lastVideoState /\ events = {}))
    /\ UNCHANGED <<video, lastVideoState, stateTimer, state>>
    /\ SyncConnUnchanged

\* background.js:225-227  the 200 ms timeout of applyVideoState
GraceExpire ==
    /\ graceTimers > 0
    /\ graceTimers' = graceTimers - 1
    /\ isControlledSync' = FALSE
    /\ vsent' = NoFrame
    /\ UNCHANGED <<video, media, lastVideoState, stateTimer, events,
                   pureRemote, state>>
    /\ applied' = NoApply
    /\ SyncConnUnchanged

\* background.js:295-322  connected and authenticated on socket 1
SyncConnInit ==
    /\ state = [InitialState EXCEPT !.webSocketUrl = Str("ws://relay"),
                                    !.accessKey = ACCESS_KEY,
                                    !.connected = TRUE,
                                    !.authenticated = TRUE,
                                    !.participants = 1]
    /\ webSocket = 1
    /\ reconnectTimerId = 0
    /\ isActive = TRUE
    /\ wsReadyState = [i \in Sockets |-> IF i = 1 THEN "OPEN" ELSE "CLOSED"]
    /\ wsAuth = [i \in Sockets |-> IF i = 1 THEN "ok" ELSE "no"]
    /\ timers = {}
    /\ disconnected = FALSE
    /\ clast = "message"

SyncSpecInit == RelayInit /\ RoomInit /\ SyncConnInit /\ SyncInit

SyncNext ==
    \/ \E found \in BOOLEAN : CheckForVideo(found)
    \/ UserPlay
    \/ UserPause
    \/ \E t \in Times : UserSeek(t)
    \/ \E r \in Rates : UserRate(r)
    \/ Advance
    \/ \E e \in EventNames : MediaEvent(e)
    \/ PeriodicSend
    \/ \E data \in RemoteData, playOk \in BOOLEAN : ApplyRemote(data, playOk)
    \/ GraceExpire

SpecSync == SyncSpecInit /\ [][SyncNext]_vars

\* C4 as stated: a step that sends a state-update never happens while the
\* element differs from the state last sent only by remote updates that
\* applyVideoState applied (no change by the viewer, no playback advance,
\* no attach or loss of the element since the last state sent).
C4_Original ==
    ~(vsent # NoFrame /\ pureRemote)

SentOfType(c, type) ==
    SelectSeq(sent[c], LAMBDA f : f.kind = "json" /\ f.obj.type = type)

\* C13: when an auth with the right key is handled, the sender alone is sent
\* authenticated and is sent no participant-update; every other
\* authenticated connection that can be sent to (its socket is open: one
\* that left OPEN awaits only its close event) is sent exactly the
\* participant-update, and every other connection is sent nothing.
C13_AuthReplyRouting ==
    \A ws \in Conns :
        Handled(ws, AuthFrame(ACCESS_KEY))
        => /\ SentOfType(ws, "authenticated") = <<AuthenticatedFrame(NAuthenticated)>>
           /\ SentOfType(ws, "participant-update") = <<>>
           /\ \A c \in Conns \ {ws} :
                sent[c] = IF Authenticated(c) /\ Open(c)
                          THEN <<ParticipantFrame(NAuthenticated)>> ELSE <<>>

\* the third connection authenticates while the first is authenticated and
\* open and the second is registered but not authenticated
C13_Witness ==
    /\ Handled(3, AuthFrame(ACCESS_KEY))
    /\ Authenticated(1) /\ Open(1) /\ Registered(2) /\ ~Authenticated(2) /\ Open(2)
    /\ sent[3] = <<AuthenticatedFrame(2)>>
    /\ sent[1] = <<ParticipantFrame(2)>>
    /\ sent[2] = <<>>

\* C14 as stated: the close handler removes the connection from the
\* registry; if the connection was authenticated, every remaining
\* authenticated connection whose socket is open is sent participant-update
\* with the new count; if it was not, nothing is sent to anyone.
C14_Original ==
    [][\A ws \in Conns :
          last' = Event("close", ws, NoFrame)
          => /\ ws \notin DOMAIN clients'
             /\ IF Authenticated(ws)
                THEN \A c \in Conns :
                        sent'[c] = IF c \in DOMAIN clients' /\ clients'[c].authenticated
                                      /\ readyState'[c] = "OPEN"
                                   THEN <<ParticipantFrame(getAuthenticatedCount(clients'))>>
                                   ELSE <<>>
                ELSE sent' = NoSends]_vars

\* C17: Room State changes only in the step that handles, for an
\* authenticated sender, a sync whose action is "state-update" and whose
\* data is present (neither missing nor null), and then equals that data;
\* every other step leaves it as it was; once set it is never null again.
C17_RoomStateOnlyByStateUpdate ==
    [][/\ \A ws \in Conns, a \in Actions, d \in DataValues :
            last' = Event("message", ws, SyncFrame(a, d))
            => lastState' = IF /\ Authenticated(ws)
                               /\ a = "state-update"
                               /\ d \notin {Undefined, Null}
                            THEN d ELSE lastState
       /\ (\A ws \in Conns, raw \in SyncFrames : last' # Event("message", ws, raw))
            => lastState' = lastState
       /\ lastState # Null => lastState' # Null]_vars

\* Room State is S2 and an authenticated connection's state-update without
\* data has just been handled (and forwarded to another)
C17_Witness ==
    /\ Handled(1, SyncFrame("state-update", Null))
    /\ Authenticated(1) /\ Authenticated(2) /\ Open(2)
    /\ sent[2] = <<SyncFrame("state-update", Null)>>
    /\ lastState = Obj("S2")

(***************************************************************************)
(* SpecFail: the relay where a send on an open socket can raise.  A socket *)
(* that starts to fail keeps its readyState and its registry entry until   *)
(* its close event.                                                        *)
(***************************************************************************)
\* part_000:63-67  client.send(data) raises from now on for this socket
SendFails(ws) ==
    /\ ws \in DOMAIN clients
    /\ readyState[ws] = "OPEN"
    /\ clients[ws].authenticated
    /\ ws \notin failing
    /\ failing' = failing \cup {ws}
    /\ sent' = NoSends
    /\ last' = Event("send-fails", ws, NoFrame)
    /\ UNCHANGED <<clients, lastState, readyState, roomVars, connVars, syncVars>>

FailNext ==
    \/ \E ws \in Conns : Connect(ws)
    \/ \E ws \in Conns, raw \in Frames : Receive(ws, raw)
    \/ \E ws \in Conns : Drop(ws)
    \/ \E ws \in Conns : Close(ws)
    \/ \E ws \in Conns : SendFails(ws)

SpecFail == Init /\ [][FailNext]_vars

\* the recipients of a broadcast that excludes the connections of ex, in
\* the state after the handler
Recipients(ex) ==
    {c \in Conns \ ex : Authenticated(c) /\ Open(c)}

\* C18: in every broadcast (of a sync, of the participant-update of an auth
\* and of that of a close) each recipient whose send raises is sent
\* nothing, every other authenticated connection with an open socket is
\* sent the message, the handler goes on as without the failure (the
\* sender is sent no error, and its replies if it authenticates), and the
\* registry and Room State are those the handler leaves without failure.
C18_FailedSendIsSkipped ==
    /\ \A ws \in Conns, a \in Actions, d \in DataValues :
        (Handled(ws, SyncFrame(a, d)) /\ Authenticated(ws))
        => /\ sent[ws] = <<>>
           /\ \A c \in Conns \ {ws} :
                sent[c] = IF c \in Recipients({ws}) \ failing
                          THEN <<SyncFrame(a, d)>> ELSE <<>>
           /\ (a = "state-update" /\ Truthy(d)) => lastState = d
    /\ \A ws \in Conns :
        Handled(ws, AuthFrame(ACCESS_KEY))
        => /\ Authenticated(ws)
           /\ sent[ws] = <<AuthenticatedFrame(NAuthenticated)>>
                            \o (IF lastState # Null THEN <<StateFrame(lastState)>> ELSE <<>>)
           /\ \A c \in Conns \ {ws} :
                sent[c] = IF c \in Recipients({ws}) \ failing
                          THEN <<ParticipantFrame(NAuthenticated)>> ELSE <<>>
    /\ \A ws \in Conns :
        last = Event("close", ws, NoFrame)
        => /\ ~Registered(ws)
           /\ \A c \in Conns :
                sent[c] = IF c \in Recipients({}) \ failing
                          THEN <<ParticipantFrame(NAuthenticated)>> ELSE <<>>

\* connection 1's state-update is broadcast while the send to 2 raises:
\* 2 is sent nothing, 3 is sent the frame, 1 no error, and the data is
\* recorded
C18_Witness ==
    /\ Handled(1, SyncFrame("state-update", Obj("S1")))
    /\ Authenticated(1) /\ lastState = Obj("S1")
    /\ failing = {2} /\ Authenticated(2) /\ Open(2) /\ sent[2] = <<>>
    /\ Authenticated(3) /\ Open(3) /\ sent[3] = <<SyncFrame("state-update", Obj("S1"))>>
    /\ sent[1] = <<>>

\* C19: an authenticated connection stays authenticated in every step
\* except the close handler's for it, which removes its entry: no frame it
\* sends (auth with a wrong or missing key, auth again, sync, unknown type,
\* unparsable) clears its flag.
C19_NoDeauthentication ==
    [][\A ws \in Conns :
          Authenticated(ws)
          => \/ ws \in DOMAIN clients' /\ clients'[ws].authenticated
             \/ last' = Event("close", ws, NoFrame) /\ ws \notin DOMAIN clients']_vars

\* an authenticated connection has sent an auth with a wrong key: it is
\* told so and is still authenticated
C19_Witness ==
    /\ Handled(1, AuthFrame(Str("key1")))
    /\ sent[1] = <<ErrorFrame("Invalid access key")>>
    /\ Authenticated(1)

(***************************************************************************)
(* The video synchronisation, continued.                                   *)
(***************************************************************************)
\* C15 as stated: whenever a step of the client sends a state-update,
\* isControlledSync is false.
C15_Original ==
    vsent # NoFrame => ~isControlledSync

\* C16 as stated: while the 200 ms timeout of the latest applyVideoState is
\* pending (timeouts of one delay fire in the order they were set, so it is
\* pending as long as any is), isControlledSync is true.
C16_Original ==
    graceTimers > 0 => isControlledSync

\* C20 as stated: a tick of the 500 ms interval that finds a playing video
\* with no event of the viewer's pending, and with the paused flag and the
\* rate last sent, sends a state-update only if the video's time is more
\* than 1 s from the time last sent.
C20_Original ==
    [][(/\ PeriodicSend
        /\ vsent' # NoFrame
        /\ lastVideoState # Null
        /\ ~media.paused
        /\ media.paused = lastVideoState.paused
        /\ media.playbackRate = lastVideoState.playbackRate
        /\ events \subseteq {"timeupdate"})
            => Abs(media.currentTime - lastVideoState.currentTime) > DriftThreshold]_vars

(***************************************************************************)
(* The connection lifecycle, continued.                                    *)
(***************************************************************************)
\* C21 as stated: at most one reconnect timeout is pending at any time.
C21_Original ==
    Cardinality(timers) <= 1

\* C22 as stated: authenticated implies connected, and connected holds
\* exactly when the current socket has opened and has not closed.
C22_Original ==
    /\ state.authenticated => state.connected
    /\ state.connected <=> (webSocket # 0 /\ wsReadyState[webSocket] = "OPEN")

====
